---------------------------- MODULE Spec2Model ----------------------------
(***************************************************************************)
(* Model of bioconda_utils/bot/tasks.py: the Checkout async context        *)
(* manager and the tasks lint_check, bump, check_circle_artifacts and      *)
(* merge_pr.                                                               *)
(*                                                                         *)
(* Every task invocation is identified by an element of Tasks.  The       *)
(* process working directory (os.getcwd / os.chdir) is the single global   *)
(* variable cwd.  External collaborators (GitHub API, CircleCI, the        *)
(* linter, the upload primitives, the git library) are the environment:    *)
(* their answers are chosen with \E inside the action that calls them.     *)
(***************************************************************************)
EXTENDS Integers, Sequences, FiniteSets, TLC

(***************************************************************************)
(* Bounds of the model.                                                    *)
(***************************************************************************)
MaxRecipes == 2
MaxRows == 2
MaxArtifacts == 2
MaxCommits == 3
MaxRuns == 3
MaxComments == 2

(***************************************************************************)
(* Small value universes.                                                  *)
(***************************************************************************)
Tasks == {"t1", "t2"}

\* A directory: a plain one, or the tempdir of the clone created by a task.
Dir(n) == [tmp |-> FALSE, name |-> n]
NoDir == Dir("")
Dirs == {Dir("/srv/bot"), Dir("/")}

RecipeNames == {"recipes/a", "recipes/b"}

\* All sequences over S of length at most n.
SeqsUpTo(S, n) == UNION {[1..k -> S] : k \in 0..n}

\* Sequences without repeated elements.
Distinct(s) == \A i, j \in DOMAIN s : i # j => s[i] # s[j]

RecipeLists == {s \in SeqsUpTo(RecipeNames, MaxRecipes) : Distinct(s)}

\* The 'info' dictionaries a lint report row can carry.
Infos == {[fix |-> "add license"], [start_line |-> 4, end_line |-> 6]}

Rows(rs) ==
    {[check |-> "missing_license", recipe |-> r, info |-> i] :
        r \in {rs[k] : k \in DOMAIN rs}, i \in Infos}

\* The dataframe returned by the linter: None, or a report with rows.
\* "unbound" is the local df never assigned.
DfNone == [kind |-> "None", rows |-> <<>>]
DfUnbound == [kind |-> "unbound", rows |-> <<>>]
DfReport(rows) == [kind |-> "report", rows |-> rows]

VARIABLES
    cwd,          \* os.getcwd(): the process-wide working directory
    pc,           \* position of each task invocation
    orig_cwd,     \* Checkout.orig_cwd of the task's Checkout object
    git,          \* Checkout.git: "None" or "repo"
    cloneState,   \* the TempBiocondaRepo of the task: absent / open / closed
    closeCalls,   \* number of git.close() calls on the task's clone
    handle,       \* what 'async with ... as git' bound: "None" or "repo"
    entry_cwd,    \* history: cwd when __aenter__ was entered
    entry_others, \* history: the tasks inside a scope when __aenter__ was entered
    failedAt,     \* history: the statement of __aenter__ that raised, or "none"
    exitKind,     \* how the scope body was left: normal / return / exception
    checkRun,     \* the modify_check_run calls of the invocation, in order
    recipes,      \* local 'recipes' of lint_check
    df,           \* local 'df' of lint_check
    lintCalls,    \* number of _lint invocations
    outcome,      \* running / returned / raised
    \* ---- merge_pr ----
    prCommits,    \* the commits of the pull request on GitHub, oldest first
    mpc,          \* position of the merge_pr invocation
    retries,      \* self.request.retries of the current invocation
    protections,  \* history: the states check_protections returned, in order
    pr,           \* local 'pr' (head sha and author login)
    comment,      \* local 'comment': the progress buffer, a list of lines
    events,       \* history: the calls made to external services, in order
    artifacts,    \* local 'artifacts': the URLs returned by CircleCI
    files,        \* local 'files'
    images,       \* local 'images'
    packages,     \* local 'packages'
    idx,          \* index of the current artifact in the running upload loop
    attempt,      \* iterations of 'for _ in range(5)' completed for it
    uploaded,     \* local 'uploaded'
    last_sha,     \* local 'last_sha' (0: None)
    lines,        \* local 'lines': the commit message
    result,       \* the returned tuple (bool, str)
    moutcome,     \* idle / running / returned / raised
    \* ---- bump ----
    build_number, \* build number of each recipe in the task's clone
    saved,        \* the recipes the task has written back with recipe.save()
    pushes,       \* the commit_and_push_changes calls of the task, in order
    \* ---- check_circle_artifacts ----
    prComments,   \* the comments of the pull request on GitHub, oldest first
    ca_pc,        \* position of each check_circle_artifacts invocation
    ca_artifacts, \* local 'artifacts': the URLs returned by CircleCI
    ca_packages,  \* local 'packages'
    ca_images,    \* local 'images'
    ca_repos,     \* local 'repos'
    ca_msg,       \* local 'msg': the rendered comment body
    ca_seen,      \* the comments the invocation was given by iter_comments
    ca_writes     \* history: the comment writes of the invocation, in order

lintVars == <<cwd, pc, orig_cwd, git, cloneState, closeCalls, handle,
              entry_cwd, entry_others, failedAt, exitKind, checkRun, recipes, df, lintCalls, outcome>>

mergeVars == <<prCommits, mpc, retries, protections, pr, comment, events,
               artifacts, files, images, packages, idx, attempt, uploaded,
               last_sha, lines, result, moutcome>>

bumpVars == <<build_number, saved, pushes>>

artifactVars == <<prComments, ca_pc, ca_artifacts, ca_packages, ca_images,
                  ca_repos, ca_msg, ca_seen, ca_writes>>

vars == <<lintVars, mergeVars, bumpVars, artifactVars>>

\* self.git.tempdir.name: every TempBiocondaRepo has a temporary directory of
\* its own
tempdirMutant(t) == [tmp |-> TRUE, name |-> "t1"]

tempdir(t) == [tmp |-> TRUE, name |-> t]

(***************************************************************************)
(* Checkout.__aenter__                                                     *)
(***************************************************************************)
\* The statements of the try block, in program order.  "branch_missing" is
\* create_local_branch returning a falsy branch (RuntimeError raised).
AcquireSteps ==
    <<"get_prs", "TempBiocondaRepo", "set_user", "getcwd", "chdir",
      "create_local_branch", "branch_missing", "checkout">>

StepIndex(s) ==
    IF \E i \in DOMAIN AcquireSteps : AcquireSteps[i] = s
    THEN CHOOSE i \in DOMAIN AcquireSteps : AcquireSteps[i] = s
    ELSE Len(AcquireSteps) + 1

\* Step s completed when the first raising step is failAt ("none": no raise).
Completed(s, failAt) == StepIndex(s) < StepIndex(failAt)

\* The steps that can raise: get_prs is only executed with an issue_number.
FailPoints(withIssue) ==
    ({"none"} \cup {AcquireSteps[i] : i \in DOMAIN AcquireSteps})
        \ (IF withIssue THEN {} ELSE {"get_prs"})

\* Task t is between the acquisition and the release of its checkout scope.
InScope(t) == pc[t] \in {"lint_body", "lint_run", "lint_exit", "bump_body", "bump_exit"}

Checkout_aenter(t, withIssue, failAt) ==
    /\ failAt \in FailPoints(withIssue)
    /\ entry_cwd' = [entry_cwd EXCEPT ![t] = cwd]
    /\ entry_others' = [entry_others EXCEPT ![t] = {u \in Tasks \ {t} : InScope(u)}]
    /\ failedAt' = [failedAt EXCEPT ![t] = failAt]
    /\ git' = [git EXCEPT ![t] =
                  IF Completed("TempBiocondaRepo", failAt) THEN "repo" ELSE "None"]
    /\ cloneState' = [cloneState EXCEPT ![t] =
                  IF Completed("TempBiocondaRepo", failAt) THEN "open" ELSE @]
    /\ orig_cwd' = [orig_cwd EXCEPT ![t] =
                  IF Completed("getcwd", failAt) THEN cwd ELSE @]
    /\ cwd' = IF Completed("chdir", failAt) THEN tempdir(t) ELSE cwd
    /\ handle' = [handle EXCEPT ![t] =
                  IF failAt = "none" THEN "repo" ELSE "None"]

(***************************************************************************)
(* Checkout.__aexit__                                                      *)
(***************************************************************************)
\* if self.orig_cwd: os.chdir(self.orig_cwd)
RestoreCwdMutant(t) == IF handle[t] # "None" THEN orig_cwd[t] ELSE cwd

RestoreCwd(t) == IF orig_cwd[t] # NoDir THEN orig_cwd[t] ELSE cwd

\* if self.git: self.git.close()
ClosesCloneMutant(t) == handle[t] # "None"

ClosesClone(t) == git[t] # "None"

Checkout_aexit(t) ==
    /\ cwd' = RestoreCwd(t)
    /\ cloneState' = [cloneState EXCEPT ![t] = IF ClosesClone(t) THEN "closed" ELSE @]
    /\ closeCalls' = [closeCalls EXCEPT ![t] = IF ClosesClone(t) THEN @ + 1 ELSE @]

(***************************************************************************)
(* lint_check                                                              *)
(***************************************************************************)
Update(status, conclusion, title, annotations) ==
    [status |-> status, conclusion |-> conclusion, title |-> title,
     annotations |-> annotations]

modify_check_run(t, u) == checkRun' = [checkRun EXCEPT ![t] = Append(@, u)]

\* line 159: await ghapi.modify_check_run(..., status=in_progress)
lint_check_start(t) ==
    /\ pc[t] = "lint_start"
    /\ modify_check_run(t, Update("in_progress", "", "", <<>>))
    /\ pc' = [pc EXCEPT ![t] = "lint_enter"]
    /\ UNCHANGED <<cwd, orig_cwd, git, cloneState, closeCalls, handle,
                   entry_cwd, entry_others, failedAt, exitKind, recipes, df, lintCalls, outcome>>
    /\ UNCHANGED <<mergeVars, bumpVars, artifactVars>>

\* line 161: async with Checkout(ghapi, ref=ref) as git
lint_check_enter(t) ==
    /\ pc[t] = "lint_enter"
    /\ \E failAt \in FailPoints(FALSE) : Checkout_aenter(t, FALSE, failAt)
    /\ pc' = [pc EXCEPT ![t] = "lint_body"]
    /\ UNCHANGED <<closeCalls, exitKind, checkRun, recipes, df, lintCalls, outcome>>
    /\ UNCHANGED <<mergeVars, bumpVars, artifactVars>>

\* lines 162-171: if not git: ... cancelled ... return
lint_check_nogit(t) ==
    /\ pc[t] = "lint_body"
    /\ handle[t] = "None"
    /\ modify_check_run(t, Update("completed", "cancelled", "Failed to check out", <<>>))
    /\ exitKind' = [exitKind EXCEPT ![t] = "return"]
    /\ pc' = [pc EXCEPT ![t] = "lint_exit"]
    /\ UNCHANGED <<cwd, orig_cwd, git, cloneState, closeCalls, handle,
                   entry_cwd, entry_others, failedAt, recipes, df, lintCalls, outcome>>
    /\ UNCHANGED <<mergeVars, bumpVars, artifactVars>>

\* line 185: the return after the neutral update leaves the scope
AfterNeutralMutant == "lint_run"

AfterNeutral == "lint_exit"

\* lines 173-185: recipes = git.get_recipes_to_build(); if not recipes: ... return
lint_check_recipes(t) ==
    /\ pc[t] = "lint_body"
    /\ handle[t] # "None"
    /\ \E rs \in RecipeLists :
        /\ recipes' = [recipes EXCEPT ![t] = rs]
        /\ IF rs = <<>>
           THEN /\ modify_check_run(t, Update("completed", "neutral",
                                              "No recipes modified", <<>>))
                /\ exitKind' = [exitKind EXCEPT ![t] = "return"]
                /\ pc' = [pc EXCEPT ![t] = AfterNeutral]
           ELSE /\ UNCHANGED <<checkRun, exitKind>>
                /\ pc' = [pc EXCEPT ![t] = "lint_run"]
    /\ UNCHANGED <<cwd, orig_cwd, git, cloneState, closeCalls, handle,
                   entry_cwd, entry_others, failedAt, df, lintCalls, outcome>>
    /\ UNCHANGED <<mergeVars, bumpVars, artifactVars>>

\* lines 188-205: df = _lint(recipes, LintArgs()), with the sys.exit workaround.
\* The linter returns None, returns a report, raises, or calls sys.exit; in
\* the last case old_exit(exc.args) either raises itself or returns, leaving
\* df unassigned.
LinterResults(rs) ==
    {[how |-> "returns", df |-> DfNone]}
    \cup {[how |-> "returns", df |-> DfReport(rows)] : rows \in SeqsUpTo(Rows(rs), MaxRows)}
    \cup {[how |-> "raises", df |-> DfUnbound],
          [how |-> "exit_swallowed", df |-> DfUnbound]}

lint_check_run(t) ==
    /\ pc[t] = "lint_run"
    /\ \E res \in LinterResults(recipes[t]) :
        /\ df' = [df EXCEPT ![t] = res.df]
        /\ exitKind' = [exitKind EXCEPT ![t] =
                            IF res.how = "raises" THEN "exception" ELSE "normal"]
    /\ lintCalls' = [lintCalls EXCEPT ![t] = @ + 1]
    /\ pc' = [pc EXCEPT ![t] = "lint_exit"]
    /\ UNCHANGED <<cwd, orig_cwd, git, cloneState, closeCalls, handle,
                   entry_cwd, entry_others, failedAt, checkRun, recipes, outcome>>
    /\ UNCHANGED <<mergeVars, bumpVars, artifactVars>>

\* Leaving the async with block: __aexit__ runs on every exit path.
lint_check_exit(t) ==
    /\ pc[t] = "lint_exit"
    /\ Checkout_aexit(t)
    /\ pc' = [pc EXCEPT ![t] = IF exitKind[t] = "normal" THEN "lint_final" ELSE "done"]
    /\ outcome' = [outcome EXCEPT ![t] =
                      CASE exitKind[t] = "return" -> "returned"
                        [] exitKind[t] = "exception" -> "raised"
                        [] OTHER -> @]
    /\ UNCHANGED <<orig_cwd, git, handle, entry_cwd, entry_others, failedAt, exitKind, checkRun,
                   recipes, df, lintCalls>>
    /\ UNCHANGED <<mergeVars, bumpVars, artifactVars>>

\* info.get(key, default)
Get(info, key, default) == IF key \in DOMAIN info THEN info[key] ELSE default

\* lines 221-232: one annotation per row of the report
Annotation(row) ==
    [path |-> <<row.recipe, "/meta.yaml">>,
     start_line |-> Get(row.info, "start_line", 1),
     end_line |-> Get(row.info, "end_line", 1),
     annotation_level |-> "failure",
     title |-> row.check,
     message |-> IF "fix" \in DOMAIN row.info THEN <<row.info.fix>> ELSE <<"str", row.info>>]

Annotations(d) == [i \in DOMAIN d.rows |-> Annotation(d.rows[i])]

\* lines 212-219: the conclusion of a lint run
ConclusionMutant(d) == IF d.rows = <<>> THEN "success" ELSE "failure"

Conclusion(d) == IF d.kind = "None" THEN "success" ELSE "failure"

Title(d) ==
    IF d.kind = "None" THEN "All recipes in good condition"
    ELSE "Some recipes had problems"

\* lines 207-241: after the scope; df unbound raises UnboundLocalError at line 212
lint_check_final(t) ==
    /\ pc[t] = "lint_final"
    /\ IF df[t].kind = "unbound"
       THEN /\ outcome' = [outcome EXCEPT ![t] = "raised"]
            /\ UNCHANGED checkRun
       ELSE /\ modify_check_run(t, Update("completed", Conclusion(df[t]), Title(df[t]),
                                          Annotations(df[t])))
            /\ outcome' = [outcome EXCEPT ![t] = "returned"]
    /\ pc' = [pc EXCEPT ![t] = "done"]
    /\ UNCHANGED <<cwd, orig_cwd, git, cloneState, closeCalls, handle,
                   entry_cwd, entry_others, failedAt, exitKind, recipes, df, lintCalls>>
    /\ UNCHANGED <<mergeVars, bumpVars, artifactVars>>

(***************************************************************************)
(* bump                                                                    *)
(***************************************************************************)
\* The build numbers of the recipes in a fresh clone.
BuildNumbers == [r \in RecipeNames |-> IF r = "recipes/a" THEN 0 ELSE 3]

\* lines 135-137: Checkout(ghapi, issue_number=...).__aenter__ starts and
\* awaits ghapi.get_prs
bump_start(t) ==
    /\ pc[t] = "bump_start"
    /\ pc' = [pc EXCEPT ![t] = "bump_enter"]
    /\ UNCHANGED <<cwd, orig_cwd, git, cloneState, closeCalls, handle, entry_cwd, entry_others,
                   failedAt, exitKind, checkRun, recipes, df, lintCalls, outcome>>
    /\ UNCHANGED <<mergeVars, bumpVars, artifactVars>>

\* line 137: async with Checkout(ghapi, issue_number=issue_number) as git
bump_enter(t) ==
    /\ pc[t] = "bump_enter"
    /\ \E failAt \in FailPoints(TRUE) : Checkout_aenter(t, TRUE, failAt)
    /\ pc' = [pc EXCEPT ![t] = "bump_body"]
    /\ UNCHANGED <<closeCalls, exitKind, checkRun, recipes, df, lintCalls, outcome>>
    /\ UNCHANGED <<mergeVars, bumpVars, artifactVars>>

\* lines 138-140: if not git: ... return
bump_nogit(t) ==
    /\ pc[t] = "bump_body"
    /\ handle[t] = "None"
    /\ exitKind' = [exitKind EXCEPT ![t] = "return"]
    /\ pc' = [pc EXCEPT ![t] = "bump_exit"]
    /\ UNCHANGED <<cwd, orig_cwd, git, cloneState, closeCalls, handle, entry_cwd, entry_others,
                   failedAt, checkRun, recipes, df, lintCalls, outcome>>
    /\ UNCHANGED <<mergeVars, bumpVars, artifactVars>>

\* line 148: the names the f-string reads that are not bound when it is
\* evaluated: 'buildno' is assigned nowhere, 'recipe' only by the loop body.
UnboundNames(rs) == {"buildno"} \cup (IF rs = <<>> THEN {"recipe"} ELSE {})

\* lines 141-150: the loop over the changed recipes, the commit message and
\* commit_and_push_changes
bump_recipes(t) ==
    /\ pc[t] = "bump_body"
    /\ handle[t] # "None"
    /\ \E rs \in RecipeLists :
        LET changed == {rs[k] : k \in DOMAIN rs}
        IN  /\ recipes' = [recipes EXCEPT ![t] = rs]
            /\ build_number' = [build_number EXCEPT ![t] =
                    [r \in RecipeNames |-> IF r \in changed THEN @[r] + 1 ELSE @[r]]]
            /\ saved' = [saved EXCEPT ![t] = @ \cup changed]
            /\ IF UnboundNames(rs) # {}
               THEN /\ exitKind' = [exitKind EXCEPT ![t] = "exception"]
                    /\ UNCHANGED pushes
               ELSE /\ exitKind' = [exitKind EXCEPT ![t] = "normal"]
                    /\ pushes' = [pushes EXCEPT ![t] =
                           Append(@, [recipes |-> rs,
                                      msg |-> <<"Bump", rs[Len(rs)], "buildno to">>])]
    /\ pc' = [pc EXCEPT ![t] = "bump_exit"]
    /\ UNCHANGED <<cwd, orig_cwd, git, cloneState, closeCalls, handle, entry_cwd, entry_others,
                   failedAt, checkRun, df, lintCalls, outcome>>
    /\ UNCHANGED <<mergeVars, artifactVars>>

\* Leaving the async with block: __aexit__ runs on every exit path.
bump_exit(t) ==
    /\ pc[t] = "bump_exit"
    /\ Checkout_aexit(t)
    /\ pc' = [pc EXCEPT ![t] = "done"]
    /\ outcome' = [outcome EXCEPT ![t] =
                      IF exitKind[t] = "exception" THEN "raised" ELSE "returned"]
    /\ UNCHANGED <<orig_cwd, git, handle, entry_cwd, entry_others, failedAt, exitKind, checkRun,
                   recipes, df, lintCalls>>
    /\ UNCHANGED <<mergeVars, bumpVars, artifactVars>>

(***************************************************************************)
(* Artifact URLs and the two classification patterns.                      *)
(*                                                                         *)
(* A URL is the sequence of its '/'-separated segments.  A segment is a    *)
(* record: stem, and for file names the extension; an image archive name   *)
(* 'name:tag.tar.gz' also carries the separator and the tag.               *)
(***************************************************************************)
Seg(s) == [stem |-> s, sep |-> "", tag |-> "", ext |-> ""]
PkgFile(n) == [stem |-> n, sep |-> "", tag |-> "", ext |-> "tar.bz2"]
ImgFile(n, sep, tag) == [stem |-> n, sep |-> sep, tag |-> tag, ext |-> "tar.gz"]

Arch == {"osx-64", "linux-64", "noarch"}

\* The URLs CircleCI can list for a build.
ArtifactUrls ==
    {<<Seg("ci"), Seg("packages"), Seg("linux-64"), PkgFile("foo-1.0")>>,
     <<Seg("ci"), Seg("packages"), Seg("noarch"), PkgFile("bar-2.0")>>,
     <<Seg("ci"), Seg("images"), ImgFile("foo", ":", "1.0")>>,
     <<Seg("ci"), Seg("images"), ImgFile("bar", "%3A", "2.0")>>,
     <<Seg("ci"), Seg("packages"), Seg("linux-64"), Seg("repodata.json")>>}

ArtifactLists == {s \in SeqsUpTo(ArtifactUrls, MaxArtifacts) : Distinct(s)}

\* PACKAGE_RE = (.*packages)/(osx-64|linux-64|noarch)/(.+\.tar\.bz2)$
\* The positions i of a 'packages' segment followed by an architecture and
\* at least one more segment, the last one ending in .tar.bz2.
PackageSplits(url) ==
    {i \in 1..(Len(url) - 2) :
        /\ url[i] = Seg("packages")
        /\ url[i + 1].stem \in Arch /\ url[i + 1] = Seg(url[i + 1].stem)
        /\ url[Len(url)].ext = "tar.bz2"}

PACKAGE_RE_match(url) == PackageSplits(url) # {}

\* The groups of the match; the first group is greedy.
PACKAGE_RE_groups(url) ==
    LET i == CHOOSE k \in PackageSplits(url) : \A j \in PackageSplits(url) : j <= k
    IN [repo_url |-> SubSeq(url, 1, i),
        arch |-> url[i + 1].stem,
        fname |-> SubSeq(url, i + 2, Len(url))]

\* IMAGE_RE = .*images/(.+)(?::|%3A)(.+)\.tar\.gz$
IMAGE_RE_match(url) ==
    /\ Len(url) >= 2
    /\ url[Len(url) - 1] = Seg("images")
    /\ url[Len(url)].sep \in {":", "%3A"}
    /\ url[Len(url)].ext = "tar.gz"

IMAGE_RE_groups(url) ==
    [name |-> url[Len(url)].stem, tag |-> url[Len(url)].tag]

\* lines 344-357 of merge_pr: what one URL contributes.
IsPackage(url) == PACKAGE_RE_match(url)
IsImage(url) == ~PACKAGE_RE_match(url) /\ IMAGE_RE_match(url)

\* fpath = os.path.join(arch, fname)
PackagePath(url) ==
    LET g == PACKAGE_RE_groups(url)
    IN [arch |-> g.arch, fname |-> g.fname]

\* fname = f"{name}__{tag}.tar.gz" and the reference f"{name}:{tag}"
ImagePath(url) ==
    LET g == IMAGE_RE_groups(url)
    IN [name |-> g.name, tag |-> g.tag]

FilePath(url) == IF IsPackage(url) THEN PackagePath(url) ELSE ImagePath(url)
FileEntry(url) == [url |-> url, path |-> FilePath(url)]

IsFile(url) == IsPackage(url) \/ IsImage(url)

Files(arts) ==
    LET sel == SelectSeq(arts, IsFile) IN [i \in DOMAIN sel |-> FileEntry(sel[i])]
Packages(arts) ==
    LET sel == SelectSeq(arts, IsPackage) IN [i \in DOMAIN sel |-> PackagePath(sel[i])]
Images(arts) ==
    LET sel == SelectSeq(arts, IsImage) IN [i \in DOMAIN sel |-> ImagePath(sel[i])]

\* ndref = "biocontainers/" + dref
Ndref(img) == [ns |-> "biocontainers", name |-> img.name, tag |-> img.tag]

(***************************************************************************)
(* check_circle_artifacts                                                  *)
(*                                                                         *)
(* A comment body is the sequence of its pieces of text; the line break is *)
(* a piece of its own.                                                     *)
(***************************************************************************)
Invocations == 1..MaxRuns

Tok(text) == [text |-> text, data |-> <<>>]
NL == Tok("\n")

\* templates/artifacts.md: a fixed first line, then the tables of the
\* packages, repos and images.
TemplateHead == Tok("Package(s) built on CircleCI are ready for inspection:")

render(pkgs, repos, imgs) ==
    <<TemplateHead, NL, [text |-> "", data |-> <<pkgs, repos, imgs>>]>>

\* What people write on a pull request, and an earlier artifacts comment.
Bodies ==
    {<<Tok("LGTM")>>,
     <<TemplateHead, Tok(" Thanks!"), NL, Tok("LGTM")>>,
     render(<<>>, <<>>, <<>>)}

CommentLists ==
    {[k \in DOMAIN bs |-> [id |-> k, body |-> bs[k]]] : bs \in SeqsUpTo(Bodies, MaxComments)}

Min(S) == CHOOSE x \in S : \A y \in S : x <= y

\* line 259: artifact_urls = set(a[1] for a in artifacts), complete before
\* the loop looks at the k-th artifact
artifact_urlsMutant(arts, k) == {arts[j] : j \in 1..k}

artifact_urls(arts, k) == {arts[j] : j \in DOMAIN arts}

\* line 271: repodata_url = '/'.join((repo_url, arch, 'repodata.json'))
repodata_url(g) == g.repo_url \o <<Seg(g.arch), Seg("repodata.json")>>

\* line 273: if repodata_url in artifact_urls
HasRepodata(arts, k) ==
    repodata_url(PACKAGE_RE_groups(arts[k])) \in artifact_urls(arts, k)

\* lines 270-276: Package(arch, fname, url, repodata_md)
Package(arts, k) ==
    LET g == PACKAGE_RE_groups(arts[k])
    IN [arch |-> g.arch, fname |-> g.fname, url |-> arts[k],
        repodata_md |-> IF HasRepodata(arts, k)
                        THEN <<"[repodata.json]", repodata_url(g)>>
                        ELSE <<>>]

\* lines 280-281: Image(url, name, tag)
Image(url) ==
    LET g == IMAGE_RE_groups(url)
    IN [url |-> url, name |-> g.name, tag |-> g.tag]

CaPackages(arts) ==
    LET sel == SelectSeq([k \in DOMAIN arts |-> k], LAMBDA k : IsPackage(arts[k]))
    IN [i \in DOMAIN sel |-> Package(arts, sel[i])]

CaImages(arts) ==
    LET sel == SelectSeq(arts, IsImage) IN [i \in DOMAIN sel |-> Image(sel[i])]

\* line 274: repos.setdefault(repo_url, set()).add(arch)
CaRepos(arts) ==
    LET linked == {k \in DOMAIN arts : IsPackage(arts[k]) /\ HasRepodata(arts, k)}
        repo(k) == PACKAGE_RE_groups(arts[k]).repo_url
    IN [u \in {repo(k) : k \in linked} |->
           {PACKAGE_RE_groups(arts[k]).arch : k \in {j \in linked : repo(j) = u}}]

\* lines 246-284: get_prs, get_artifacts, the classification and the render
ca_collect(i, lists) ==
    /\ ca_pc[i] = "start"
    /\ \E arts \in lists :
        /\ ca_artifacts' = [ca_artifacts EXCEPT ![i] = arts]
        /\ ca_packages' = [ca_packages EXCEPT ![i] = CaPackages(arts)]
        /\ ca_images' = [ca_images EXCEPT ![i] = CaImages(arts)]
        /\ ca_repos' = [ca_repos EXCEPT ![i] = CaRepos(arts)]
        /\ ca_msg' = [ca_msg EXCEPT ![i] =
                          render(CaPackages(arts), CaRepos(arts), CaImages(arts))]
    /\ ca_pc' = [ca_pc EXCEPT ![i] = "list"]
    /\ UNCHANGED <<prComments, ca_seen, ca_writes>>
    /\ UNCHANGED <<lintVars, mergeVars, bumpVars>>

\* line 287: await ghapi.iter_comments(pr_number) answers with the comments
\* the pull request has at that moment
ca_list(i) ==
    /\ ca_pc[i] = "list"
    /\ ca_seen' = [ca_seen EXCEPT ![i] = prComments]
    /\ ca_pc' = [ca_pc EXCEPT ![i] = "write"]
    /\ UNCHANGED <<prComments, ca_artifacts, ca_packages, ca_images, ca_repos,
                   ca_msg, ca_writes>>
    /\ UNCHANGED <<lintVars, mergeVars, bumpVars>>

\* line 286: msg_head, _, _ = msg.partition("\n")
msg_head(msg) ==
    LET breaks == {k \in DOMAIN msg : msg[k] = NL}
    IN IF breaks = {} THEN msg ELSE SubSeq(msg, 1, Min(breaks) - 1)

\* line 288: comment['body'].startswith(msg_head)
startswithMutant(body, prefix) == body = prefix

startswith(body, prefix) ==
    Len(prefix) <= Len(body) /\ SubSeq(body, 1, Len(prefix)) = prefix

\* GitHub's side of update_comment and create_comment
Updated(comments, id, body) ==
    [k \in DOMAIN comments |->
        IF comments[k].id = id THEN [id |-> id, body |-> body] ELSE comments[k]]

Created(comments, body) == Append(comments, [id |-> Len(comments) + 1, body |-> body])

Write(op, id, body) == [op |-> op, id |-> id, body |-> body]

\* lines 287-292: async for ... if startswith: update, break; else: create
ca_write(i) ==
    /\ ca_pc[i] = "write"
    /\ LET seen == ca_seen[i]
           found == {k \in DOMAIN seen : startswith(seen[k].body, msg_head(ca_msg[i]))}
       IN IF found # {}
          THEN /\ prComments' = Updated(prComments, seen[Min(found)].id, ca_msg[i])
               /\ ca_writes' = [ca_writes EXCEPT ![i] =
                      Append(@, Write("update_comment", seen[Min(found)].id, ca_msg[i]))]
          ELSE /\ prComments' = Created(prComments, ca_msg[i])
               /\ ca_writes' = [ca_writes EXCEPT ![i] =
                      Append(@, Write("create_comment", 0, ca_msg[i]))]
    /\ ca_pc' = [ca_pc EXCEPT ![i] = "done"]
    /\ UNCHANGED <<ca_artifacts, ca_packages, ca_images, ca_repos, ca_msg, ca_seen>>
    /\ UNCHANGED <<lintVars, mergeVars, bumpVars>>

(***************************************************************************)
(* The pull request on GitHub.                                             *)
(***************************************************************************)
PrAuthor == "alice"

\* A commit: the GitHub login of its author ("None": no account matched) and
\* the name and e-mail recorded in the git commit.
Commit(login, name, email) == [login |-> login, name |-> name, email |-> email]

Commits ==
    {Commit(l, id[1], id[2]) :
        l \in {PrAuthor, "bob", "None"},
        id \in {<<"Bob", "b@x.org">>, <<"Bob", "b@y.org">>, <<"Al", "a@x.org">>}}

\* A pull request has at least one commit.
CommitLists == SeqsUpTo(Commits, MaxCommits) \ {<<>>}

FewCommitLists ==
    {<<Commit(PrAuthor, "Al", "a@x.org")>>,
     <<Commit(PrAuthor, "Al", "a@x.org"), Commit("bob", "Bob", "b@x.org")>>}

\* The sha of the i-th commit is i; the head sha is that of the last commit.
HeadSha == Len(prCommits)

(***************************************************************************)
(* merge_pr                                                                *)
(***************************************************************************)
MaxRetries == 15
Countdown == 20
UploadAttempts == 5
SleepSeconds == 5

Result(ok, msg) == [ok |-> ok, msg |-> msg]
NoResult == Result(FALSE, "")
CannotMerge == Result(FALSE, "PR cannot be merged at this time. Please try again later")
NoPackages == Result(FALSE, "PR did not build any packages.")
DownloadFailed == Result(FALSE, "Failed to download archives. Please try again later")
ImageUploadFailed == Result(FALSE, "Failed to upload image to Quay.io")
PackageUploadFailed == Result(FALSE, "Failed to upload package to Anaconda")

\* What check_protections can answer: (state, message).
Protection(state, message) == [state |-> state, message |-> message]
ProtectionAnswers ==
    {Protection("None", ""), Protection("True", ""),
     Protection("False", "Review required"),
     Protection("False", "Checks failing")}

\* What ghapi.merge_pr can answer.
MergeAnswers == {Result(TRUE, "Pull Request successfully merged"),
                 Result(FALSE, "Pull Request is not mergeable")}

Line(text, arg) == [text |-> text, arg |-> arg]

\* Events: the calls to the external services.
Ev(op, arg) == [op |-> op, arg |-> arg]
EvCheck(sha, answer) == Ev("check_protections", <<sha, answer>>)
EvRetry == Ev("retry", <<Countdown, MaxRetries>>)
EvUpdate(id, body) == Ev("update_comment", <<id, body>>)
EvArtifacts(sha) == Ev("get_artifacts", <<sha>>)
EvFetch(urls, ok) == Ev("async_fetch", <<urls, ok>>)
EvSkopeo(target, ok) == Ev("skopeo_upload", <<target, ok>>)
EvAnaconda(target, ok) == Ev("anaconda_upload", <<target, ok>>)
EvSleep == Ev("sleep", <<SleepSeconds>>)
EvMerge(sha, message) == Ev("merge_pr", <<sha, message>>)
EvCommits == Ev("iter_pr_commits", <<>>)

\* The comment the merge command was given in.
CommentId == "comment_id"

\* comment += line: the buffer grows by one line
ProgressMutant(c, l) == <<l>>

Progress(c, l) == Append(c, l)

\* await ghapi.update_comment(comment_id, comment)
PublishedMutant(body) == <<>>

Published(body) == <<EvUpdate(CommentId, body)>>

Return(r) ==
    /\ mpc' = "done"
    /\ result' = r
    /\ moutcome' = "returned"

\* Celery's Task.retry with max_retries: MaxRetriesExceededError is raised
\* when the number of this retry, request.retries + 1, is above max_retries.
RetryExhaustedMutant(r) == r + 1 >= MaxRetries

RetryExhausted(r) == r + 1 > MaxRetries

\* lines 315-326
merge_pr_protections(answers) ==
    /\ mpc = "start"
    /\ \E a \in answers :
        /\ pr' = [sha |-> HeadSha, author |-> PrAuthor]
        /\ protections' = Append(protections, a.state)
        /\ CASE a.state = "None" /\ RetryExhausted(retries) ->
                  /\ Return(CannotMerge)
                  /\ events' = events \o <<EvCheck(HeadSha, a)>>
                  /\ UNCHANGED <<retries, comment>>
             [] a.state = "None" /\ ~RetryExhausted(retries) ->
                  /\ retries' = retries + 1
                  /\ events' = events \o <<EvCheck(HeadSha, a), EvRetry>>
                  /\ UNCHANGED <<mpc, result, moutcome, comment>>
             [] a.state = "False" ->
                  /\ Return(Result(FALSE, a.message))
                  /\ events' = events \o <<EvCheck(HeadSha, a)>>
                  /\ UNCHANGED <<retries, comment>>
             [] a.state = "True" ->
                  /\ comment' = <<Line("Upload & Merge started. Reload page to view progress.", <<>>),
                                  Line("- [x] Checks OK", <<>>)>>
                  /\ events' = events \o <<EvCheck(HeadSha, a)>> \o Published(comment')
                  /\ mpc' = "artifacts"
                  /\ UNCHANGED <<retries, result, moutcome>>
    /\ UNCHANGED <<prCommits, artifacts, files, images, packages, idx, attempt,
                   uploaded, last_sha, lines>>
    /\ UNCHANGED <<lintVars, bumpVars, artifactVars>>

\* line 359: if not files
NoFilesMutant(arts, fs) == arts = <<>>

NoFiles(arts, fs) == fs = <<>>

\* lines 328-363
merge_pr_artifacts(lists) ==
    /\ mpc = "artifacts"
    /\ \E arts \in lists :
        /\ artifacts' = arts
        /\ files' = Files(arts)
        /\ images' = Images(arts)
        /\ packages' = Packages(arts)
        /\ IF NoFiles(arts, Files(arts))
           THEN /\ Return(NoPackages)
                /\ events' = events \o <<EvArtifacts(pr.sha)>>
                /\ UNCHANGED comment
           ELSE /\ comment' = Progress(comment,
                        Line("- [x] Fetching {} packages and {} images",
                             <<Len(Packages(arts)), Len(Images(arts))>>))
                /\ events' = events \o <<EvArtifacts(pr.sha)>> \o Published(comment')
                /\ mpc' = "download"
                /\ UNCHANGED <<result, moutcome>>
    /\ UNCHANGED <<prCommits, retries, protections, pr, idx, attempt, uploaded,
                   last_sha, lines>>
    /\ UNCHANGED <<lintVars, bumpVars, artifactVars>>

\* Where control goes when image i is the next one to upload.
AtImage(i) ==
    IF i <= Len(images) THEN "images"
    ELSE IF packages # <<>> THEN "packages" ELSE "authors"

\* Where control goes when package j is the next one to upload.
AtPackage(j) == IF j <= Len(packages) THEN "packages" ELSE "authors"

\* lines 365-389: an exception of async_fetch leaves the try/finally and
\* the function; 'if not done' is only reached with done = True.
merge_pr_download(oks) ==
    /\ mpc = "download"
    /\ \E ok \in oks :
        /\ events' = Append(events, EvFetch([i \in DOMAIN files |-> files[i].url], ok))
        /\ IF ok
           THEN /\ mpc' = AtImage(1)
                /\ UNCHANGED <<result, moutcome>>
           ELSE /\ mpc' = "done"
                /\ moutcome' = "raised"
                /\ UNCHANGED result
    /\ uploaded' = <<>>
    /\ idx' = 1
    /\ attempt' = 0
    /\ UNCHANGED <<prCommits, retries, protections, pr, comment, artifacts, files,
                   images, packages, last_sha, lines>>
    /\ UNCHANGED <<lintVars, bumpVars, artifactVars>>

\* for _ in range(5): ... else: the loop is exhausted after n iterations
LoopExhaustedMutant(n) == n > UploadAttempts

LoopExhausted(n) == n >= UploadAttempts

\* lines 399-401 and 415-417: what follows an exhausted loop
AfterExhaustedMutant(next) == next

AfterExhausted(next) == "done"

\* lines 390-404: one iteration of the retry loop of the current image
merge_pr_upload_image(oks) ==
    /\ mpc = "images"
    /\ \E ok \in oks :
        LET ndref == Ndref(images[idx]) IN
        IF ok
        THEN /\ uploaded' = Append(uploaded, ndref)
             /\ comment' = Progress(comment, Line("- [x] Uploaded image {}", <<ndref>>))
             /\ events' = events \o <<EvSkopeo(ndref, TRUE)>> \o Published(comment')
             /\ idx' = IF AtImage(idx + 1) = "images" THEN idx + 1 ELSE 1
             /\ attempt' = 0
             /\ mpc' = AtImage(idx + 1)
             /\ UNCHANGED <<result, moutcome>>
        ELSE /\ events' = events \o <<EvSkopeo(ndref, FALSE), EvSleep>>
             /\ UNCHANGED <<uploaded, comment>>
             /\ IF LoopExhausted(attempt + 1)
                THEN /\ mpc' = AfterExhausted(AtImage(idx + 1))
                     /\ result' = IF mpc' = "done" THEN ImageUploadFailed ELSE result
                     /\ moutcome' = IF mpc' = "done" THEN "returned" ELSE moutcome
                     /\ idx' = IF AtImage(idx + 1) = "images" THEN idx + 1 ELSE 1
                     /\ attempt' = 0
                ELSE /\ attempt' = attempt + 1
                     /\ UNCHANGED <<mpc, result, moutcome, idx>>
    /\ UNCHANGED <<prCommits, retries, protections, pr, artifacts, files, images,
                   packages, last_sha, lines>>
    /\ UNCHANGED <<lintVars, bumpVars, artifactVars>>

\* lines 406-420: one iteration of the retry loop of the current package
merge_pr_upload_package(oks) ==
    /\ mpc = "packages"
    /\ \E ok \in oks :
        LET fname == packages[idx] IN
        IF ok
        THEN /\ uploaded' = Append(uploaded, fname)
             /\ comment' = Progress(comment, Line("- [x] Uploaded package {}", <<fname>>))
             /\ events' = events \o <<EvAnaconda(fname, TRUE)>> \o Published(comment')
             /\ idx' = idx + 1
             /\ attempt' = 0
             /\ mpc' = AtPackage(idx + 1)
             /\ UNCHANGED <<result, moutcome>>
        ELSE /\ events' = events \o <<EvAnaconda(fname, FALSE), EvSleep>>
             /\ UNCHANGED <<uploaded, comment>>
             /\ IF LoopExhausted(attempt + 1)
                THEN /\ mpc' = AfterExhausted(AtPackage(idx + 1))
                     /\ result' = IF mpc' = "done" THEN PackageUploadFailed ELSE result
                     /\ moutcome' = IF mpc' = "done" THEN "returned" ELSE moutcome
                     /\ idx' = idx + 1
                     /\ attempt' = 0
                ELSE /\ attempt' = attempt + 1
                     /\ UNCHANGED <<mpc, result, moutcome, idx>>
    /\ UNCHANGED <<prCommits, retries, protections, pr, artifacts, files, images,
                   packages, last_sha, lines>>
    /\ UNCHANGED <<lintVars, bumpVars, artifactVars>>

\* lines 422-426
UploadLines(up) ==
    <<Line("", <<>>), Line("Package uploads complete: [ci skip]", <<>>)>>
    \o [i \in DOMAIN up |-> Line(" - ", <<up[i]>>)]
    \o <<Line("", <<>>)>>

\* line 436: if author_login != pr_author
IsCoauthorCommitMutant(c, author) == TRUE

IsCoauthorCommit(c, author) == c.login # author

\* line 439: f"Co-authored-by: {name} <{email}>"
CoauthorText == "Co-authored-by: {} <{}>"
CoauthorLine(c) == Line(CoauthorText, <<c.name, c.email>>)

\* lines 430-443: the set 'coauthors' after the loop over the commits
Coauthors(cs, author) ==
    {CoauthorLine(cs[i]) : i \in {k \in DOMAIN cs : IsCoauthorCommit(cs[k], author)}}

\* lines 440-443: "@" + login, or the name when the commit has no login
CoauthorLogin(c) == IF c.login # "None" THEN <<"@", c.login>> ELSE <<c.name>>

CoauthorLogins(cs, author) ==
    {CoauthorLogin(cs[i]) : i \in {k \in DOMAIN cs : IsCoauthorCommit(cs[k], author)}}

\* list(a_set): the elements once each, in an order the program does not fix
Perms(S) == {s \in [1..Cardinality(S) -> S] : Distinct(s)}

\* lines 428-451
merge_pr_authors ==
    /\ mpc = "authors"
    /\ last_sha' = Len(prCommits)
    /\ \E order \in Perms(Coauthors(prCommits, pr.author)) :
        lines' = UploadLines(uploaded) \o order
    /\ comment' = Progress(comment,
            Line("- Creating squash merge",
                 IF Coauthors(prCommits, pr.author) # {}
                 THEN <<CoauthorLogins(prCommits, pr.author)>> ELSE <<>>))
    /\ events' = events \o <<EvCommits>> \o Published(comment')
    /\ mpc' = "merge"
    /\ UNCHANGED <<prCommits, retries, protections, pr, artifacts, files, images,
                   packages, idx, attempt, uploaded, result, moutcome>>
    /\ UNCHANGED <<lintVars, bumpVars, artifactVars>>

\* lines 453-454
merge_pr_merge(answers) ==
    /\ mpc = "merge"
    /\ \E r \in answers :
        /\ events' = Append(events, EvMerge(last_sha, lines))
        /\ Return(r)
    /\ UNCHANGED <<prCommits, retries, protections, pr, comment, artifacts, files,
                   images, packages, idx, attempt, uploaded, last_sha, lines>>
    /\ UNCHANGED <<lintVars, bumpVars, artifactVars>>

\* The state before merge_pr is invoked; started: whether it is invoked.
InitMerge(commitLists, started) ==
    /\ prCommits \in commitLists
    /\ mpc = IF started THEN "start" ELSE "idle"
    /\ retries = 0
    /\ protections = <<>>
    /\ pr = [sha |-> 0, author |-> ""]
    /\ comment = <<>>
    /\ events = <<>>
    /\ artifacts = <<>>
    /\ files = <<>>
    /\ images = <<>>
    /\ packages = <<>>
    /\ idx = 1
    /\ attempt = 0
    /\ uploaded = <<>>
    /\ last_sha = 0
    /\ lines = <<>>
    /\ result = NoResult
    /\ moutcome = IF started THEN "running" ELSE "idle"

(***************************************************************************)
(* Specification of one lint_check invocation.                             *)
(***************************************************************************)
\* The check_circle_artifacts invocations in 'started' are about to run on a
\* pull request that has one of the given comment lists.
InitArtifacts(commentLists, started) ==
    /\ prComments \in commentLists
    /\ ca_pc = [i \in Invocations |-> IF i \in started THEN "start" ELSE "idle"]
    /\ ca_artifacts = [i \in Invocations |-> <<>>]
    /\ ca_packages = [i \in Invocations |-> <<>>]
    /\ ca_images = [i \in Invocations |-> <<>>]
    /\ ca_repos = [i \in Invocations |-> <<>>]
    /\ ca_msg = [i \in Invocations |-> <<>>]
    /\ ca_seen = [i \in Invocations |-> <<>>]
    /\ ca_writes = [i \in Invocations |-> <<>>]

NoArtifacts == InitArtifacts({<<>>}, {})

\* The handler invocations of a worker process: pcs is the set of possible
\* assignments of a first position to each task.
InitHandlers(pcs, cwds) ==
    /\ cwd \in cwds
    /\ pc \in pcs
    /\ orig_cwd = [t \in Tasks |-> NoDir]
    /\ git = [t \in Tasks |-> "None"]
    /\ cloneState = [t \in Tasks |-> "absent"]
    /\ closeCalls = [t \in Tasks |-> 0]
    /\ handle = [t \in Tasks |-> "None"]
    /\ entry_cwd = [t \in Tasks |-> NoDir]
    /\ entry_others = [t \in Tasks |-> {}]
    /\ failedAt = [t \in Tasks |-> "none"]
    /\ exitKind = [t \in Tasks |-> "normal"]
    /\ checkRun = [t \in Tasks |-> <<>>]
    /\ recipes = [t \in Tasks |-> <<>>]
    /\ df = [t \in Tasks |-> DfUnbound]
    /\ lintCalls = [t \in Tasks |-> 0]
    /\ outcome = [t \in Tasks |-> "running"]
    /\ build_number = [t \in Tasks |-> BuildNumbers]
    /\ saved = [t \in Tasks |-> {}]
    /\ pushes = [t \in Tasks |-> <<>>]

InitTasks(started, cwds) ==
    InitHandlers({[t \in Tasks |-> IF t \in started THEN "lint_start" ELSE "idle"]}, cwds)

InitLint ==
    InitTasks({"t1"}, Dirs)
    /\ InitMerge({<<Commit(PrAuthor, "Al", "a@x.org")>>}, FALSE)
    /\ NoArtifacts

NextLint ==
    \E t \in Tasks :
        \/ lint_check_start(t)
        \/ lint_check_enter(t)
        \/ lint_check_nogit(t)
        \/ lint_check_recipes(t)
        \/ lint_check_run(t)
        \/ lint_check_exit(t)
        \/ lint_check_final(t)

SpecLint == InitLint /\ [][NextLint]_vars

(***************************************************************************)
(* Specification of merge_pr once the protections are determined: every    *)
(* artifact list and every answer of the download, the uploads and the     *)
(* merge, few commits.                                                     *)
(***************************************************************************)
InitMergeAll ==
    InitTasks({}, {Dir("/srv/bot")})
    /\ InitMerge(FewCommitLists, TRUE)
    /\ NoArtifacts

NextMerge ==
    \/ merge_pr_protections(ProtectionAnswers \ {Protection("None", "")})
    \/ merge_pr_artifacts(ArtifactLists)
    \/ merge_pr_download(BOOLEAN)
    \/ merge_pr_upload_image(BOOLEAN)
    \/ merge_pr_upload_package(BOOLEAN)
    \/ merge_pr_authors
    \/ merge_pr_merge(MergeAnswers)

SpecMerge == InitMergeAll /\ [][NextMerge]_vars

(***************************************************************************)
(* Specification of merge_pr for the commit message: every list of        *)
(* commits, one package that uploads at once.                              *)
(***************************************************************************)
InitAuthors ==
    InitTasks({}, {Dir("/srv/bot")})
    /\ InitMerge(CommitLists, TRUE)
    /\ NoArtifacts

\* The artifact list of a build of one package.
OnePackage == {<<<<Seg("ci"), Seg("packages"), Seg("noarch"), PkgFile("bar-2.0")>>>>}

NextAuthors ==
    \/ merge_pr_protections({Protection("True", "")})
    \/ merge_pr_artifacts(OnePackage)
    \/ merge_pr_download({TRUE})
    \/ merge_pr_upload_package({TRUE})
    \/ merge_pr_authors
    \/ merge_pr_merge(MergeAnswers)

SpecAuthors == InitAuthors /\ [][NextAuthors]_vars

(***************************************************************************)
(* Specification of merge_pr with its reschedules: every answer of         *)
(* check_protections on every invocation, one package that uploads at      *)
(* once.                                                                   *)
(***************************************************************************)
InitRetry ==
    InitTasks({}, {Dir("/srv/bot")})
    /\ InitMerge(FewCommitLists, TRUE)
    /\ NoArtifacts

NextRetry ==
    \/ merge_pr_protections(ProtectionAnswers)
    \/ merge_pr_artifacts(OnePackage \cup {<<>>})
    \/ merge_pr_download(BOOLEAN)
    \/ merge_pr_upload_package({TRUE})
    \/ merge_pr_authors
    \/ merge_pr_merge(MergeAnswers)

SpecRetry == InitRetry /\ [][NextRetry]_vars

(***************************************************************************)
(* Specification of merge_pr on a pull request that receives commits while *)
(* the handler is suspended in one of its awaits: one package whose upload *)
(* may fail and be retried after the sleep.                                *)
(***************************************************************************)
\* A contributor pushes one more commit to the branch of the pull request.
push ==
    /\ mpc \notin {"idle", "done"}
    /\ Len(prCommits) < MaxCommits
    /\ prCommits' = Append(prCommits, Commit("bob", "Bob", "b@x.org"))
    /\ UNCHANGED <<mpc, retries, protections, pr, comment, events, artifacts,
                   files, images, packages, idx, attempt, uploaded, last_sha,
                   lines, result, moutcome>>
    /\ UNCHANGED <<lintVars, bumpVars, artifactVars>>

InitPush ==
    InitTasks({}, {Dir("/srv/bot")})
    /\ InitMerge(FewCommitLists, TRUE)
    /\ NoArtifacts

NextPush ==
    \/ merge_pr_protections({Protection("True", "")})
    \/ merge_pr_artifacts(OnePackage)
    \/ merge_pr_download({TRUE})
    \/ merge_pr_upload_package(BOOLEAN)
    \/ merge_pr_authors
    \/ merge_pr_merge(MergeAnswers)
    \/ push

SpecPush == InitPush /\ [][NextPush]_vars

(***************************************************************************)
(* Specification of a worker process whose event loop runs two handler     *)
(* invocations, each lint_check or bump.  An invocation runs from one      *)
(* await to the next without interruption; at an await the loop may resume *)
(* the other invocation.                                                   *)
(***************************************************************************)
HandlerStarts == [Tasks -> {"lint_start", "bump_start"}]

InitWorker ==
    InitHandlers(HandlerStarts, {Dir("/srv/bot")})
    /\ InitMerge({<<Commit(PrAuthor, "Al", "a@x.org")>>}, FALSE)
    /\ NoArtifacts

\* Task t is between two awaits: it has been resumed and has not reached its
\* next await.  lint_check awaits modify_check_run at lines 159, 165 and 177
\* (the last two inside the scope, before the return) and 234; bump awaits
\* only get_prs inside __aenter__.
Executing(t) ==
    \/ pc[t] \in {"lint_body", "lint_run", "lint_final", "bump_body", "bump_exit"}
    \/ pc[t] = "lint_exit" /\ exitKind[t] # "return"

Turn(t) == \A u \in Tasks \ {t} : ~Executing(u)

\* One step of invocation t.  The linter answers without a report and at
\* most one recipe is linted: the report plays no part for the checkout.
Handler(t) ==
    \/ Turn(t) /\ lint_check_start(t)
    \/ Turn(t) /\ lint_check_enter(t)
    \/ Turn(t) /\ lint_check_nogit(t)
    \/ Turn(t) /\ lint_check_recipes(t) /\ Len(recipes'[t]) <= 1
    \/ Turn(t) /\ lint_check_run(t) /\ df'[t].kind # "report"
    \/ Turn(t) /\ lint_check_exit(t)
    \/ Turn(t) /\ lint_check_final(t)
    \/ Turn(t) /\ bump_start(t)
    \/ Turn(t) /\ bump_enter(t)
    \/ Turn(t) /\ bump_nogit(t)
    \/ Turn(t) /\ bump_recipes(t)
    \/ Turn(t) /\ bump_exit(t)

NextWorker == \E t \in Tasks : Handler(t)

SpecWorker == InitWorker /\ [][NextWorker]_vars

(***************************************************************************)
(* Specification of one check_circle_artifacts invocation: every artifact  *)
(* list, on a pull request with any of the comment lists.                  *)
(***************************************************************************)
InitCollect ==
    InitTasks({}, {Dir("/srv/bot")})
    /\ InitMerge({<<Commit(PrAuthor, "Al", "a@x.org")>>}, FALSE)
    /\ InitArtifacts(CommentLists, {1})

NextCollect ==
    \E i \in Invocations :
        \/ ca_collect(i, ArtifactLists)
        \/ ca_list(i)
        \/ ca_write(i)

SpecCollect == InitCollect /\ [][NextCollect]_vars

(***************************************************************************)
(* Specification of check_circle_artifacts invoked again and again on one  *)
(* pull request, each invocation after the one before it is over, with     *)
(* artifact lists that render differently.                                 *)
(***************************************************************************)
FewArtifactLists ==
    {<<>>,
     <<<<Seg("ci"), Seg("packages"), Seg("linux-64"), PkgFile("foo-1.0")>>>>,
     <<<<Seg("ci"), Seg("packages"), Seg("linux-64"), PkgFile("foo-1.0")>>,
       <<Seg("ci"), Seg("packages"), Seg("linux-64"), Seg("repodata.json")>>>>}

InitUpsert ==
    InitTasks({}, {Dir("/srv/bot")})
    /\ InitMerge({<<Commit(PrAuthor, "Al", "a@x.org")>>}, FALSE)
    /\ InitArtifacts(CommentLists, Invocations)

InOrder(i) == \A j \in Invocations : j < i => ca_pc[j] = "done"

NextUpsert ==
    \E i \in Invocations :
        \/ InOrder(i) /\ ca_collect(i, FewArtifactLists)
        \/ ca_list(i)
        \/ ca_write(i)

SpecUpsert == InitUpsert /\ [][NextUpsert]_vars

(***************************************************************************)
(* Specification of two check_circle_artifacts invocations on one pull     *)
(* request that has no artifacts comment yet; the event loop (or a second  *)
(* worker) may run either of them at each of their awaits.                 *)
(***************************************************************************)
IsPrefix(h, b) == Len(h) <= Len(b) /\ \A k \in DOMAIN h : b[k] = h[k]

\* The comments of a list whose body starts with the line h.
Such(comments, h) == {k \in DOMAIN comments : IsPrefix(h, comments[k].body)}

PlainCommentLists == {c \in CommentLists : Such(c, <<TemplateHead>>) = {}}

Racers == {1, 2}

InitRace ==
    InitTasks({}, {Dir("/srv/bot")})
    /\ InitMerge({<<Commit(PrAuthor, "Al", "a@x.org")>>}, FALSE)
    /\ InitArtifacts(PlainCommentLists, Racers)

NextRace ==
    \E i \in Racers :
        \/ ca_collect(i, FewArtifactLists)
        \/ ca_list(i)
        \/ ca_write(i)

SpecRace == InitRace /\ [][NextRace]_vars

(***************************************************************************)
(* Properties of Checkout and lint_check.                                  *)
(***************************************************************************)
\* The scope of task t has been entered / has been released.
ScopeEntered(t) == pc[t] \in {"lint_body", "lint_run", "lint_exit", "lint_final", "done"}
Released(t) == pc[t] \in {"lint_final", "done"}
Alone(t) == \A u \in Tasks \ {t} : ~ScopeEntered(u)

\* C1: after __aexit__ the process working directory equals the working
\* directory at the moment __aenter__ began, whatever the acquisition outcome
\* (handle or None, also when a statement after os.chdir raised) and however
\* the body was left, provided no other checkout scope ran meanwhile.
C1_CwdRestored ==
    \A t \in Tasks : (Released(t) /\ Alone(t)) => cwd = entry_cwd[t]

\* C1 witness: acquisition failed after os.chdir (no branch found), the body
\* returned early, and the scope has been released.
C1_Witness ==
    \E t \in Tasks :
        /\ Released(t)
        /\ failedAt[t] = "branch_missing"
        /\ handle[t] = "None"
        /\ exitKind[t] = "return"
        /\ cwd = entry_cwd[t]

\* C2: a clone created during acquisition is closed exactly once by the time
\* the scope has been exited, on every exit path and also when __aenter__
\* returned None after creating it; close is never called twice, and never
\* without a clone.
C2_CloneClosedOnce ==
    \A t \in Tasks :
        /\ closeCalls[t] <= 1
        /\ cloneState[t] = "absent" => closeCalls[t] = 0
        /\ Released(t) =>
            (cloneState[t] # "absent" => cloneState[t] = "closed" /\ closeCalls[t] = 1)

\* C2 witness: the clone was created, a later step of acquisition raised
\* (None was returned), and the clone is closed after the scope.
C2_Witness ==
    \E t \in Tasks :
        /\ Released(t)
        /\ failedAt[t] = "set_user"
        /\ handle[t] = "None"
        /\ cloneState[t] = "closed"
        /\ closeCalls[t] = 1

Conclusions == {"success", "failure", "neutral", "cancelled"}

\* C9: the first check-run update, and only the first, sets in_progress; a
\* completed update carries one of the four conclusions and is the last
\* update; an invocation that returns has issued exactly these two updates.
C9_CheckRunProtocol ==
    \A t \in Tasks :
        LET cr == checkRun[t] IN
        /\ \A i \in DOMAIN cr : (cr[i].status = "in_progress") <=> (i = 1)
        /\ \A i \in DOMAIN cr :
              cr[i].status # "in_progress" =>
                  /\ cr[i].status = "completed"
                  /\ cr[i].conclusion \in Conclusions
                  /\ i = Len(cr)
        /\ outcome[t] = "returned" => Len(cr) = 2 /\ cr[2].status = "completed"

\* C9 witness: an invocation returned through the early return for a branch
\* without recipes, with exactly the two updates.
C9_Witness ==
    \E t \in Tasks :
        /\ outcome[t] = "returned"
        /\ exitKind[t] = "return"
        /\ handle[t] # "None"
        /\ Len(checkRun[t]) = 2
        /\ checkRun[t][2].conclusion = "neutral"

\* C10: for an invocation that returned, the conclusion is cancelled iff the
\* checkout was None; neutral (titled "No recipes modified") iff the checkout
\* succeeded and no recipes are to be built; success iff the linter ran and
\* returned None; failure, with one annotation per report row, iff the linter
\* returned a report.  The linter never runs without a checkout or recipes.
C10_LintOutcome ==
    \A t \in Tasks :
        /\ lintCalls[t] > 0 => (handle[t] # "None" /\ recipes[t] # <<>>)
        /\ outcome[t] = "returned" =>
            LET last == checkRun[t][Len(checkRun[t])] IN
            /\ (last.conclusion = "cancelled") <=> (handle[t] = "None")
            /\ (last.conclusion = "neutral") <=>
                   (handle[t] # "None" /\ recipes[t] = <<>>)
            /\ last.conclusion = "neutral" => last.title = "No recipes modified"
            /\ (last.conclusion = "success") <=>
                   (lintCalls[t] = 1 /\ df[t].kind = "None")
            /\ (last.conclusion = "failure") <=>
                   (lintCalls[t] = 1 /\ df[t].kind = "report")
            /\ last.conclusion = "failure" =>
                   /\ Len(last.annotations) = Len(df[t].rows)
                   /\ \A i \in DOMAIN df[t].rows :
                          /\ last.annotations[i].path = <<df[t].rows[i].recipe, "/meta.yaml">>
                          /\ last.annotations[i].title = df[t].rows[i].check
            /\ last.conclusion # "failure" => last.annotations = <<>>

\* C10 witness: the linter returned a report with two rows and the check run
\* was completed as failure with two annotations.
C10_Witness ==
    \E t \in Tasks :
        /\ outcome[t] = "returned"
        /\ lintCalls[t] = 1
        /\ Len(df[t].rows) = 2
        /\ checkRun[t][2].conclusion = "failure"
        /\ Len(checkRun[t][2].annotations) = 2

(***************************************************************************)
(* Properties of merge_pr.                                                 *)
(***************************************************************************)
IsUpload(e) == e.op \in {"skopeo_upload", "anaconda_upload"}

\* The positions in the event history of the upload attempts for a target.
AttemptsOn(target) ==
    {i \in DOMAIN events : IsUpload(events[i]) /\ events[i].arg[1] = target}

FailedOn(target) == {i \in AttemptsOn(target) : ~events[i].arg[2]}
SucceededOn(target) == {i \in AttemptsOn(target) : events[i].arg[2]}

\* Everything merge_pr may have to upload: the image references, the packages.
Targets == {Ndref(images[i]) : i \in DOMAIN images} \cup {packages[i] : i \in DOMAIN packages}

InUploaded(target) == \E i \in DOMAIN uploaded : uploaded[i] = target

UploadFailures == {ImageUploadFailed, PackageUploadFailed}

EventsOf(op) == {i \in DOMAIN events : events[i].op = op}

\* C3: an upload that fails N < 5 times and then succeeds is attempted
\* exactly N + 1 times (the success is its last attempt) and the artifact is
\* recorded in 'uploaded'; an upload that fails 5 times makes merge_pr return
\* the upload failure of its loop; no artifact sees a 6th attempt.
C3_RetryLoop ==
    \A target \in Targets :
        /\ Cardinality(AttemptsOn(target)) <= UploadAttempts
        /\ Cardinality(SucceededOn(target)) <= 1
        /\ \A i \in SucceededOn(target) :
              /\ \A j \in AttemptsOn(target) : j <= i
              /\ Cardinality(FailedOn(target)) < UploadAttempts
              /\ Cardinality(AttemptsOn(target)) = Cardinality(FailedOn(target)) + 1
              /\ InUploaded(target)
        /\ Cardinality(FailedOn(target)) = UploadAttempts =>
              /\ moutcome = "returned"
              /\ result = IF "ns" \in DOMAIN target
                          THEN ImageUploadFailed ELSE PackageUploadFailed

\* C3 witness: a package failed four times and was uploaded by the fifth
\* attempt.
C3_Witness ==
    \E target \in Targets :
        /\ Cardinality(FailedOn(target)) = 4
        /\ Cardinality(AttemptsOn(target)) = 5
        /\ InUploaded(target)
        /\ "arch" \in DOMAIN target

\* C4 as amended: check_protections is called at most 16 times (the first
\* invocation and 15 retries); the "cannot be merged at this time" result is
\* returned exactly when all 16 calls were indeterminate; a concrete answer
\* of any call, the 16th included, is acted on; after a concrete first answer
\* nothing was rescheduled.
C4_RetryBudget ==
    /\ Len(protections) <= MaxRetries + 1
    /\ retries = Cardinality(EventsOf("retry"))
    /\ (moutcome = "returned" /\ result = CannotMerge) <=>
          (Len(protections) = MaxRetries + 1
           /\ \A i \in DOMAIN protections : protections[i] = "None")
    /\ \A i \in DOMAIN protections :
          protections[i] # "None" => (i = Len(protections) /\ mpc # "start")
    /\ (protections # <<>> /\ protections[Len(protections)] = "True") =>
          (EventsOf("update_comment") # {} /\ result # CannotMerge)
    /\ (protections # <<>> /\ protections[1] # "None") => retries = 0

\* C4 witness: 15 indeterminate answers, then True on the 16th call, which
\* started the upload.
C4_Witness ==
    /\ Len(protections) = MaxRetries + 1
    /\ \A i \in 1..MaxRetries : protections[i] = "None"
    /\ protections[MaxRetries + 1] = "True"
    /\ mpc = "artifacts"
    /\ retries = MaxRetries

\* C4 as stated: after 15 indeterminate answers a concrete answer on the
\* 16th call is not acted on, merge_pr returns "cannot be merged at this
\* time"; a concrete first answer means no reschedule.
C4_Original ==
    /\ (/\ Len(protections) = MaxRetries + 1
        /\ \A i \in 1..MaxRetries : protections[i] = "None"
        /\ protections[MaxRetries + 1] # "None")
          => (moutcome = "returned" /\ result = CannotMerge)
    /\ (protections # <<>> /\ protections[1] # "None") => retries = 0

\* C5: when async_fetch fails, merge_pr returns (False, "Failed to download
\* archives. Please try again later") instead of raising, and neither an
\* upload nor the merge is attempted.
C5_DownloadFailureReturned ==
    (\E i \in EventsOf("async_fetch") : ~events[i].arg[2]) =>
        /\ moutcome = "returned"
        /\ result = DownloadFailed
        /\ \A i \in DOMAIN events : ~IsUpload(events[i]) /\ events[i].op # "merge_pr"

\* The position of a target among the uploads: images first, then packages.
Position(target) ==
    IF \E i \in DOMAIN images : Ndref(images[i]) = target
    THEN CHOOSE i \in DOMAIN images : Ndref(images[i]) = target
    ELSE Len(images) + (CHOOSE i \in DOMAIN packages : packages[i] = target)

\* C6: when an artifact has failed all 5 attempts, merge_pr has returned the
\* upload failure, the artifact is not in 'uploaded', no later artifact was
\* attempted, merge was not called, and every artifact uploaded before is
\* still recorded: the only calls issued are the known ones, none undoes an
\* upload.
C6_UploadExhaustion ==
    \A target \in Targets :
        Cardinality(FailedOn(target)) = UploadAttempts =>
            /\ moutcome = "returned"
            /\ result \in UploadFailures
            /\ ~InUploaded(target)
            /\ \A later \in Targets :
                  Position(later) > Position(target) => AttemptsOn(later) = {}
            /\ EventsOf("merge_pr") = {}
            /\ \A earlier \in Targets :
                  Position(earlier) < Position(target) =>
                      (SucceededOn(earlier) # {} /\ InUploaded(earlier))
            /\ \A i \in DOMAIN events :
                  events[i].op \in {"check_protections", "retry", "update_comment",
                                    "get_artifacts", "async_fetch", "skopeo_upload",
                                    "anaconda_upload", "sleep"}

\* C6 witness: an image was uploaded and then a package failed five times.
C6_Witness ==
    \E target \in Targets :
        /\ Cardinality(FailedOn(target)) = UploadAttempts
        /\ Position(target) = 2
        /\ Len(uploaded) = 1
        /\ result = PackageUploadFailed

\* C7: when the protections passed and no listed artifact is a package or an
\* image, merge_pr returned (False, "PR did not build any packages.") and
\* made no download, no upload and no merge call.
C7_NoArtifacts ==
    (/\ EventsOf("get_artifacts") # {}
     /\ \A i \in DOMAIN artifacts : ~IsPackage(artifacts[i]) /\ ~IsImage(artifacts[i]))
        => /\ moutcome = "returned"
           /\ result = NoPackages
           /\ \A i \in DOMAIN events :
                 /\ ~IsUpload(events[i])
                 /\ events[i].op \notin {"async_fetch", "merge_pr"}

\* C7 witness: the only artifact listed is a repodata.json.
C7_Witness ==
    /\ Len(artifacts) = 1
    /\ ~IsPackage(artifacts[1]) /\ ~IsImage(artifacts[1])
    /\ result = NoPackages
    /\ moutcome = "returned"

\* The co-author lines of the composed commit message.
CoauthorLines == SelectSeq(lines, LAMBDA l : l.text = CoauthorText)

\* The contributors other than the primary author: by login, or by the
\* display name when the commit has no login.
Contributor(c) == IF c.login # "None" THEN <<"login", c.login>> ELSE <<"name", c.name>>

Contributors ==
    {Contributor(prCommits[i]) : i \in DOMAIN prCommits} \ {<<"login", PrAuthor>>}

\* C8 as amended: the message holds, once each, exactly the co-author lines
\* "name <email>" of the commits whose author login is not the login of the
\* pull request's author (commits without a login included); which depends
\* only on the set of commits, not on their order or number.
C8_CoauthorLines ==
    mpc \in {"merge", "done"} /\ lines # <<>> =>
        /\ Distinct(CoauthorLines)
        /\ {CoauthorLines[i] : i \in DOMAIN CoauthorLines}
              = {CoauthorLine(c) : c \in {prCommits[i] : i \in DOMAIN prCommits}
                                             \ {d \in Commits : d.login = PrAuthor}}

\* C8 witness: one contributor with two e-mail addresses, two lines.
C8_Witness ==
    /\ mpc = "done"
    /\ Cardinality(Contributors) = 1
    /\ Len(CoauthorLines) = 2
    /\ EventsOf("merge_pr") # {}

\* C8 as stated: one co-author line per distinct contributor other than the
\* primary author.
C8_Original ==
    mpc \in {"merge", "done"} /\ lines # <<>> =>
        Len(CoauthorLines) = Cardinality(Contributors)

(***************************************************************************)
(* Properties of the progress comment and of the order of the steps.       *)
(***************************************************************************)
\* The update_comment calls of the invocation, in order.
Updates == SelectSeq(events, LAMBDA e : e.op = "update_comment")

IsProperPrefix(a, b) == Len(a) < Len(b) /\ SubSeq(b, 1, Len(a)) = a

\* C11: every progress publication updates the comment the command came
\* from, no comment is created, and each published body extends the body
\* published before it: the buffer is never reset or shortened.
C11_ProgressChain ==
    /\ \A i \in DOMAIN events : events[i].op # "create_comment"
    /\ \A i \in DOMAIN Updates :
          /\ Updates[i].arg[1] = CommentId
          /\ i > 1 => IsProperPrefix(Updates[i - 1].arg[2], Updates[i].arg[2])
    /\ Updates # <<>> => Updates[Len(Updates)].arg[2] = comment

\* C11 witness: five publications, from "Checks OK" to the squash merge line.
C11_Witness ==
    /\ Len(Updates) = 5
    /\ Len(Updates[5].arg[2]) = 6
    /\ Len(uploaded) = 2
    /\ mpc = "merge"

\* The place of a call in the order of the steps (0: not a step of its own).
Rank(op) ==
    CASE op = "check_protections" -> 1
      [] op = "get_artifacts" -> 2
      [] op = "async_fetch" -> 3
      [] op = "skopeo_upload" -> 4
      [] op = "anaconda_upload" -> 5
      [] op = "iter_pr_commits" -> 6
      [] op = "merge_pr" -> 7
      [] OTHER -> 0

Ranked == {i \in DOMAIN events : Rank(events[i].op) > 0}

\* C12: the calls occur in the order protections check, artifact listing,
\* download, image uploads, package uploads, co-author collection, merge,
\* each of the single steps at most once; hence every image attempt precedes
\* every package attempt.  A successful upload is followed at once, before
\* any other call, by a progress update whose last line names the artifact.
C12_StepOrder ==
    /\ \A i, j \in Ranked : i < j => Rank(events[i].op) <= Rank(events[j].op)
    /\ \A op \in {"check_protections", "get_artifacts", "async_fetch",
                  "iter_pr_commits", "merge_pr"} : Cardinality(EventsOf(op)) <= 1
    /\ \A i \in DOMAIN events :
          (IsUpload(events[i]) /\ events[i].arg[2]) =>
              /\ i + 1 \in DOMAIN events
              /\ events[i + 1].op = "update_comment"
              /\ LET body == events[i + 1].arg[2]
                 IN body[Len(body)].arg = <<events[i].arg[1]>>

\* C12 witness: an image and a package were uploaded and the merge was called.
C12_Witness ==
    /\ EventsOf("skopeo_upload") # {}
    /\ EventsOf("anaconda_upload") # {}
    /\ EventsOf("iter_pr_commits") # {}
    /\ EventsOf("merge_pr") # {}
    /\ Len(uploaded) = 2

\* C15: when check_protections answers False, merge_pr returns (False, the
\* message of that answer) and has made no other call; ghapi.merge_pr is
\* called at most once, and only after the protections passed, at least one
\* file was classified, the download succeeded and every image and package
\* is in 'uploaded'.
C15_MergeGuard ==
    /\ (protections # <<>> /\ protections[Len(protections)] = "False") =>
          /\ moutcome = "returned"
          /\ result = Result(FALSE, events[Len(events)].arg[2].message)
          /\ events[Len(events)].op = "check_protections"
          /\ events[Len(events)].arg[2].state = "False"
          /\ \A i \in DOMAIN events : events[i].op \in {"check_protections", "retry"}
    /\ Cardinality(EventsOf("merge_pr")) <= 1
    /\ EventsOf("merge_pr") # {} =>
          /\ protections[Len(protections)] = "True"
          /\ files # <<>>
          /\ \E i \in EventsOf("async_fetch") : events[i].arg[2]
          /\ \A target \in Targets : InUploaded(target)
          /\ Len(uploaded) = Len(files)

\* C15 witness: the protections failed and merge_pr returned their message.
C15_Witness ==
    /\ protections = <<"False">>
    /\ result = Result(FALSE, "Checks failing")
    /\ moutcome = "returned"
    /\ events = <<EvCheck(HeadSha, Protection("False", "Checks failing"))>>

\* The sleeps of the retry loops follow a failed attempt at once.
Sleeps == EventsOf("sleep")

\* C18: a sleep only separates two attempts on the same artifact: the call
\* before it is a failed attempt and, once the invocation is over, the call
\* after it is the next attempt on that artifact; so k attempts cost k - 1
\* sleeps and none follows the last attempt.
C18_SleepBetweenAttempts ==
    /\ \A i \in Sleeps : i > 1 /\ IsUpload(events[i - 1]) /\ ~events[i - 1].arg[2]
    /\ \A i \in Sleeps :
          (i = Len(events) => moutcome = "running")
          /\ (i < Len(events) =>
                 (IsUpload(events[i + 1]) /\ events[i + 1].arg[1] = events[i - 1].arg[1]))
    /\ \A target \in Targets :
          AttemptsOn(target) # {} /\ (moutcome # "running" \/ InUploaded(target)) =>
              Cardinality({i \in Sleeps : events[i - 1].arg[1] = target})
                  = Cardinality(AttemptsOn(target)) - 1

\* C19: the sha given to ghapi.merge_pr is the head sha of the pull request
\* that check_protections was asked about and that the artifacts were
\* listed for, also when commits arrive while merge_pr is suspended.
C19_MergeShaChecked ==
    \A m \in EventsOf("merge_pr") :
        /\ events[m].arg[1] = pr.sha
        /\ \A c \in EventsOf("check_protections") :
              events[c].arg[2].state = "True" => events[c].arg[1] = events[m].arg[1]
        /\ \A a \in EventsOf("get_artifacts") : events[a].arg[1] = events[m].arg[1]

(***************************************************************************)
(* Properties of bump and of checkout scopes in one worker process.        *)
(***************************************************************************)
\* Task t is a bump invocation that has started: bump never updates a check
\* run, lint_check does so first of all.
IsBump(t) == pc[t] \notin {"idle", "lint_start", "bump_start"} /\ checkRun[t] = <<>>

Changed(t) == {recipes[t][k] : k \in DOMAIN recipes[t]}

\* C17: a bump invocation whose checkout succeeded has, when it leaves the
\* scope, incremented by one and saved the build number of every changed
\* recipe (and of no other) and called commit_and_push_changes once; it ends
\* by returning, not by raising.
C17_BumpCompletes ==
    \A t \in Tasks :
        (IsBump(t) /\ pc[t] \in {"bump_exit", "done"} /\ handle[t] # "None") =>
            /\ \A r \in RecipeNames :
                  build_number[t][r] = BuildNumbers[r] + (IF r \in Changed(t) THEN 1 ELSE 0)
            /\ saved[t] = Changed(t)
            /\ Len(pushes[t]) = 1
            /\ exitKind[t] # "exception"
            /\ pc[t] = "done" => outcome[t] = "returned"

\* C14 as stated: two scopes are never active together, and a scope that
\* returned a handle has the process working directory at its own clone.
C14_Original ==
    /\ \A t, u \in Tasks : (InScope(t) /\ InScope(u)) => t = u
    /\ \A t \in Tasks :
          (InScope(t) /\ handle[t] # "None") => cwd = [tmp |-> TRUE, name |-> t]

\* No other scope was active when t entered its scope and none has been
\* entered since: the scheduler ran the scopes one after the other.
Exclusive(t) ==
    /\ entry_others[t] = {}
    /\ \A u \in Tasks \ {t} : t \notin entry_others[u]

\* C14 as amended: Checkout does nothing to keep a second scope from being
\* entered while the first is suspended at an await; when the scopes are
\* run one after the other, the scope is the only active one and the
\* process working directory is its own clone during its body.
C14_OwnCloneWhenExclusive ==
    \A t \in Tasks :
        (InScope(t) /\ Exclusive(t)) =>
            /\ \A u \in Tasks \ {t} : ~InScope(u)
            /\ handle[t] # "None" => cwd = [tmp |-> TRUE, name |-> t]

\* C14 witness: t2 holds its clone in its scope, entered after t1 had
\* changed into its own clone and released it again.
C14_Witness ==
    /\ InScope("t2") /\ handle["t2"] # "None" /\ Exclusive("t2")
    /\ pc["t1"] = "done"
    /\ orig_cwd["t1"] # NoDir /\ failedAt["t1"] \notin {"getcwd", "chdir"}
    /\ cwd = [tmp |-> TRUE, name |-> "t2"]

(***************************************************************************)
(* Properties of check_circle_artifacts.                                   *)
(***************************************************************************)
\* The URLs of the artifact batch of invocation i.
BatchUrls(i) == {ca_artifacts[i][k] : k \in DOMAIN ca_artifacts[i]}

Range(f) == {f[k] : k \in DOMAIN f}

\* C13: a package carries the repodata link, and its architecture is in the
\* group of its repo, exactly when <repo path>/<arch>/repodata.json is a URL
\* of the same batch, wherever in the batch it stands; every permutation of
\* the batch yields the same packages with links, images and repo groups.
C13_RepodataLinks ==
    \A i \in Invocations :
        ca_pc[i] \notin {"idle", "start"} =>
            /\ \A k \in DOMAIN ca_packages[i] :
                  LET p == ca_packages[i][k]
                      g == PACKAGE_RE_groups(p.url)
                      wanted == g.repo_url \o <<Seg(g.arch), Seg("repodata.json")>>
                      grouped == /\ g.repo_url \in DOMAIN ca_repos[i]
                                 /\ g.arch \in ca_repos[i][g.repo_url]
                  IN /\ (p.repodata_md # <<>>) <=> (wanted \in BatchUrls(i))
                     /\ grouped <=> (wanted \in BatchUrls(i))
                     /\ p.repodata_md # <<>> => p.repodata_md[2] = wanted
            /\ \A u \in DOMAIN ca_repos[i] : \A a \in ca_repos[i][u] :
                  \E k \in DOMAIN ca_packages[i] :
                      /\ ca_packages[i][k].arch = a
                      /\ PACKAGE_RE_groups(ca_packages[i][k].url).repo_url = u
            /\ \A perm \in Perms(BatchUrls(i)) :
                  /\ Range(CaPackages(perm)) = Range(ca_packages[i])
                  /\ Range(CaImages(perm)) = Range(ca_images[i])
                  /\ CaRepos(perm) = ca_repos[i]

\* C13 witness: the package is listed before the repodata.json of its
\* architecture and carries the link.
C13_Witness ==
    /\ ca_pc[1] = "list"
    /\ Len(ca_artifacts[1]) = 2
    /\ IsPackage(ca_artifacts[1][1])
    /\ ca_artifacts[1][2][Len(ca_artifacts[1][2])] = Seg("repodata.json")
    /\ ca_packages[1][1].repodata_md # <<>>
    /\ ca_repos[1][<<Seg("ci"), Seg("packages")>>] = {"linux-64"}

\* The invocations that are over, and the last of them.
Done == {i \in Invocations : ca_pc[i] = "done"}

Max(S) == CHOOSE x \in S : \A y \in S : y <= x

\* C16: an invocation that is over has written exactly once, its render:
\* an update of the first comment it was given whose body starts with the
\* first line of the render if there is one, a creation otherwise, and no
\* write before that.  When the invocations follow one another and the first
\* found no such comment, the pull request has exactly one such comment, and
\* its body is the render of the last invocation that is over.
C16_Upsert ==
    /\ \A i \in Invocations :
          IF ca_pc[i] = "done"
          THEN LET such == Such(ca_seen[i], msg_head(ca_msg[i]))
                   w == ca_writes[i][1]
               IN /\ Len(ca_writes[i]) = 1
                  /\ w.body = ca_msg[i]
                  /\ such # {} => (w.op = "update_comment" /\ w.id = ca_seen[i][Min(such)].id)
                  /\ such = {} => w.op = "create_comment"
          ELSE ca_writes[i] = <<>>
    /\ (Done # {} /\ Such(ca_seen[1], msg_head(ca_msg[1])) = {}) =>
          LET last == Max(Done)
              such == Such(prComments, msg_head(ca_msg[last]))
          IN /\ Cardinality(such) = 1
             /\ \A k \in such : prComments[k].body = ca_msg[last]

\* C16 witness: three invocations with three different renders; the first
\* created the comment, the others updated it.
C16_Witness ==
    /\ Done = {1, 2, 3}
    /\ ca_writes[1][1].op = "create_comment"
    /\ ca_writes[2][1].op = "update_comment"
    /\ ca_writes[3][1].op = "update_comment"
    /\ ca_msg[1] # ca_msg[2] /\ ca_msg[2] # ca_msg[3] /\ ca_msg[1] # ca_msg[3]
    /\ Len(prComments) = 2
    /\ prComments[2].body = ca_msg[3]

\* C20: when two interleaved invocations are both over, the pull request
\* has at most one comment whose body starts with the first line of the
\* artifacts template.
C20_AtMostOneComment ==
    (\A i \in Racers : ca_pc[i] = "done") =>
        Cardinality(Such(prComments, <<TemplateHead>>)) <= 1

=============================================================================
